---------------------------- MODULE Spec2Model ----------------------------
(***************************************************************************)
(* EC2 automatic alarm creator: the Lambda handler of                      *)
(* src/lambda/ec2-monitor.ts as a state machine.                           *)
(*                                                                         *)
(* One invocation of the handler runs in a slot k.  Every await of the     *)
(* code is one action: the remote call is issued, the remote service       *)
(* answers (its answer is drawn from the answers the service can give),    *)
(* and the code runs on to its next await, its return or its throw.        *)
(* The remote state the handler writes (CloudWatch alarms, SSM parameters) *)
(* persists from one invocation to the next.                               *)
(***************************************************************************)
EXTENDS Integers, Sequences, FiniteSets, TLC

(***************************************************************************)
(* JavaScript values.  undefined is the string "undefined", which is also  *)
(* what a template literal prints for it.                                  *)
(***************************************************************************)
UNDEF == "undefined"

\* !v is false exactly for the truthy values; of the values drawn here the
\* falsy ones are undefined and the empty string.
Truthy(v) == v \notin {UNDEF, ""}

(***************************************************************************)
(* State.                                                                  *)
(*   env           process.env.SNS_TOPIC_ARN of the deployment             *)
(*   alarms        CloudWatch: alarm name -> alarm                         *)
(*   params        SSM parameter store: name -> parameter                  *)
(*   pc            where invocation k stands (the await it is about to     *)
(*                 run), "idle" when the slot holds no invocation          *)
(*   event         the event invocation k was given                        *)
(*   commandId     the CommandId the last sendCommand of k answered        *)
(*   returnTo      the step of installCloudWatchAgent that awaits the      *)
(*                 waiter: "install" (line 52) or "configure" (line 110)   *)
(*   attempts      waitForCommandCompletion's counter                      *)
(*   instanceInfo  what getInstanceInfo returned to createAlarms           *)
(*   result        the handler's promise                                   *)
(* Observations of an invocation, not read by the code:                    *)
(*   calls         the remote requests k has issued, in order; a run of    *)
(*                 polls of one command is one entry                       *)
(*   polls         how often k has issued getCommandInvocation for the     *)
(*                 command it is waiting for                               *)
(*   waited        milliseconds k has slept waiting for that command       *)
(*   lastPoll      the answer of k's most recent getCommandInvocation      *)
(*   last          the last createAlarms or deleteAlarms call that         *)
(*                 completed, while nothing else has touched the alarms:   *)
(*                 the alarms after it (after), whether it repeated the    *)
(*                 call before it (repeat) and then the alarms after that  *)
(*                 call (first), and for deleteAlarms the alarms before    *)
(*                 the first of the calls (before)                         *)
(*   chained       whether k's createAlarms repeats the call in last       *)
(***************************************************************************)
VARIABLES env, alarms, params, pc, event, commandId, returnTo, attempts,
          instanceInfo, result, calls, polls, waited, lastPoll, last, chained

vars ==
    <<env, alarms, params, pc, event, commandId, returnTo, attempts,
      instanceInfo, result, calls, polls, waited, lastPoll, last, chained>>

remote == <<alarms, params>>

waiter == <<attempts, polls, waited, lastPoll>>

(***************************************************************************)
(* Bounds of the model: the slots of the sequential specification, the     *)
(* values an event's fields and the environment are drawn from, and the    *)
(* answers of the remote services.                                         *)
(***************************************************************************)
Slots == {1}

InstanceIds == {"i-123", "i-999"}

IdValues == InstanceIds \cup {UNDEF, ""}

StateValues == {"running", "terminated", "pending", "stopped", UNDEF, ""}

Topics == {"arn:aws:sns:us-east-1:111122223333:EC2MonitoringTopic"}

EnvValues == Topics \cup {UNDEF}

\* The shapes of event.detail: absent, null, a string, an object.
DetailKinds == {"undefined", "null", "string", "object"}

Events ==
    {[detail |-> d, id |-> UNDEF, state |-> UNDEF] :
        d \in DetailKinds \ {"object"}}
    \cup {[detail |-> "object", id |-> i, state |-> s] :
        i \in IdValues, s \in StateValues}

NoEvent == [detail |-> "undefined", id |-> UNDEF, state |-> UNDEF]

\* The CommandId the service gives the command sent at a step: every command
\* gets an id of its own.
NewCommandId(step) == IF step = "install" THEN "cmd-1" ELSE "cmd-2"

InstanceInfos ==
    {[instanceType |-> "t3.micro", imageId |-> "ami-1"],
     [instanceType |-> "t3.large", imageId |-> "ami-1"]}

NoInfo == [instanceType |-> UNDEF, imageId |-> UNDEF]

\* What describeInstances can hold for an instance: nothing, a full record,
\* or a record that lacks one of the two fields.
DescribeAnswers ==
    {[found |-> TRUE, instanceType |-> x.instanceType, imageId |-> x.imageId] :
        x \in InstanceInfos}
    \cup {[found |-> FALSE, instanceType |-> UNDEF, imageId |-> UNDEF],
          [found |-> TRUE, instanceType |-> UNDEF, imageId |-> "ami-1"],
          [found |-> TRUE, instanceType |-> "t3.micro", imageId |-> UNDEF]}

(***************************************************************************)
(* Errors: a thrown value with an optional code (the AWS SDK sets it, new  *)
(* Error(...) does not) and a message.                                     *)
(***************************************************************************)
Err(c, m) == [code |-> c, message |-> m]

NoError == Err(UNDEF, UNDEF)

\* Any failure of a remote service other than the ones the code names.
ServiceError(op) == Err("ServiceUnavailable", op \o " failed")

Pending == [state |-> "pending", error |-> NoError]

Fulfilled == [state |-> "fulfilled", error |-> NoError]

Rejected(e) == [state |-> "rejected", error |-> e]


(***************************************************************************)
(* Names and payloads the code builds from an instance id.                 *)
(***************************************************************************)
CpuAlarmName(instanceId) == "CPU-High-" \o instanceId

\* Faulty variant: the name leaves the instance id out.
MemoryAlarmNameNoInstance(instanceId) == "Memory-High-"

MemoryAlarmName(instanceId) == "Memory-High-" \o instanceId

\* Faulty variant: one parameter for every instance.
parameterNameShared(instanceId) == "/cloudwatch-agent/config"

parameterName(instanceId) == "/cloudwatch-agent/config/" \o instanceId

maxAttempts == 30

initialDelayMs == 5000

pollIntervalMs == 10000

\* The execution timeout of the function: cdk.Duration.minutes(5).
LambdaTimeoutMs == 5 * 60 * 1000

CpuThreshold == 80

MemoryThreshold == 75

\* JSON.stringify(configContent)
configContent ==
    "{\"agent\":{\"metrics_collection_interval\":60,\"run_as_user\":\"root\"},"
    \o "\"metrics\":{\"metrics_collected\":{\"mem\":{\"measurement\":"
    \o "[\"mem_used_percent\"],\"metrics_collection_interval\":60},"
    \o "\"swap\":{\"measurement\":[\"swap_used_percent\"]}},"
    \o "\"append_dimensions\":{\"ImageId\":\"${aws:ImageId}\","
    \o "\"InstanceId\":\"${aws:InstanceId}\","
    \o "\"InstanceType\":\"${aws:InstanceType}\"}}}"

Dim(n, v) == [Name |-> n, Value |-> v]

\* Faulty variant: the target is added to the actions the alarm already has,
\* so that a second call changes the alarm.
CpuAlarmAppendingActions(instanceId, snsTopicArn) ==
    [AlarmName |-> "CPU-High-" \o instanceId,
     MetricName |-> "CPUUtilization",
     Namespace |-> "AWS/EC2",
     Period |-> 60,
     EvaluationPeriods |-> 1,
     DatapointsToAlarm |-> 1,
     Threshold |-> 80,
     ActionsEnabled |-> TRUE,
     AlarmActions |->
        IF "CPU-High-" \o instanceId \in DOMAIN alarms
        THEN Append(alarms["CPU-High-" \o instanceId].AlarmActions, snsTopicArn)
        ELSE <<snsTopicArn>>,
     ComparisonOperator |-> "GreaterThanThreshold",
     TreatMissingData |-> "missing",
     Statistic |-> "Average",
     Dimensions |-> <<Dim("InstanceId", instanceId)>>,
     AlarmDescription |->
        "CPU utilization is high for instance " \o instanceId
        \o " (>80% for 1 minute)"]

\* The request of the first putMetricAlarm of createAlarms.
CpuAlarm(instanceId, snsTopicArn) ==
    [AlarmName |-> CpuAlarmName(instanceId),
     MetricName |-> "CPUUtilization",
     Namespace |-> "AWS/EC2",
     Period |-> 60,
     EvaluationPeriods |-> 1,
     DatapointsToAlarm |-> 1,
     Threshold |-> CpuThreshold,
     ActionsEnabled |-> TRUE,
     AlarmActions |-> <<snsTopicArn>>,
     ComparisonOperator |-> "GreaterThanThreshold",
     TreatMissingData |-> "missing",
     Statistic |-> "Average",
     Dimensions |-> <<Dim("InstanceId", instanceId)>>,
     AlarmDescription |->
        "CPU utilization is high for instance " \o instanceId
        \o " (>80% for 1 minute)"]

\* Faulty variant: the memory alarm is dimensioned like the CPU alarm, by the
\* instance id alone.
MemoryAlarmInstanceOnly(instanceId, snsTopicArn, info) ==
    [AlarmName |-> "Memory-High-" \o instanceId,
     MetricName |-> "mem_used_percent",
     Namespace |-> "CWAgent",
     Period |-> 60,
     EvaluationPeriods |-> 1,
     DatapointsToAlarm |-> 1,
     Threshold |-> 75,
     ActionsEnabled |-> TRUE,
     AlarmActions |-> <<snsTopicArn>>,
     ComparisonOperator |-> "GreaterThanThreshold",
     TreatMissingData |-> "missing",
     Statistic |-> "Average",
     Dimensions |-> <<Dim("InstanceId", instanceId)>>,
     AlarmDescription |->
        "Memory utilization is high for instance " \o instanceId
        \o " (>75% for 1 minute)"]

\* The request of the second putMetricAlarm of createAlarms.
MemoryAlarm(instanceId, snsTopicArn, info) ==
    [AlarmName |-> MemoryAlarmName(instanceId),
     MetricName |-> "mem_used_percent",
     Namespace |-> "CWAgent",
     Period |-> 60,
     EvaluationPeriods |-> 1,
     DatapointsToAlarm |-> 1,
     Threshold |-> MemoryThreshold,
     ActionsEnabled |-> TRUE,
     AlarmActions |-> <<snsTopicArn>>,
     ComparisonOperator |-> "GreaterThanThreshold",
     TreatMissingData |-> "missing",
     Statistic |-> "Average",
     Dimensions |-> <<Dim("InstanceId", instanceId),
                      Dim("InstanceType", info.instanceType),
                      Dim("ImageId", info.imageId)>>,
     AlarmDescription |->
        "Memory utilization is high for instance " \o instanceId
        \o " (>75% for 1 minute)"]

\* Faulty variant: the CPU alarm is named twice, the memory alarm not at all.
DeleteAlarmNamesCpuTwice(instanceId) ==
    <<"CPU-High-" \o instanceId, "CPU-High-" \o instanceId>>

\* Faulty variant: only the CPU alarm is named.
DeleteAlarmNamesCpuOnly(instanceId) == <<"CPU-High-" \o instanceId>>

\* The AlarmNames of the deleteAlarms request.
DeleteAlarmNames(instanceId) ==
    <<CpuAlarmName(instanceId), MemoryAlarmName(instanceId)>>

(***************************************************************************)
(* The requests, as the invocation's log records them.                     *)
(***************************************************************************)
InstallRequest(instanceId) ==
    [op |-> "sendCommand",
     DocumentName |-> "AWS-ConfigureAWSPackage",
     InstanceIds |-> <<instanceId>>,
     action |-> "Install",
     name |-> "AmazonCloudWatchAgent"]

ConfigureRequest(instanceId) ==
    [op |-> "sendCommand",
     DocumentName |-> "AmazonCloudWatch-ManageAgent",
     InstanceIds |-> <<instanceId>>,
     action |-> "configure",
     mode |-> "ec2",
     optionalConfigurationSource |-> "ssm",
     optionalConfigurationLocation |-> parameterName(instanceId),
     optionalRestart |-> "yes"]

PollRequest(instanceId, cmd) ==
    [op |-> "getCommandInvocation",
     CommandId |-> cmd,
     InstanceId |-> instanceId]

PutParameterRequest(instanceId) ==
    [op |-> "putParameter",
     Name |-> parameterName(instanceId),
     Type |-> "String",
     Value |-> configContent,
     Overwrite |-> TRUE]

DescribeRequest(instanceId) ==
    [op |-> "describeInstances", InstanceIds |-> <<instanceId>>]

PutAlarmRequest(alarm) == [op |-> "putMetricAlarm", alarm |-> alarm]

DeleteAlarmsRequest(instanceId) ==
    [op |-> "deleteAlarms", AlarmNames |-> DeleteAlarmNames(instanceId)]

(***************************************************************************)
(* The remote stores: a map from name to what was last put under it.       *)
(* putMetricAlarm and putParameter (Overwrite: true) create or replace;    *)
(* deleteAlarms removes the names it is given and ignores the absent ones. *)
(***************************************************************************)
Upsert(store, key, value) ==
    [n \in DOMAIN store \cup {key} |-> IF n = key THEN value ELSE store[n]]

Range(seq) == {seq[x] : x \in DOMAIN seq}

Remove(store, keys) == [n \in DOMAIN store \ Range(keys) |-> store[n]]

EmptyStore == [n \in {} |-> n]


(***************************************************************************)
(* The answers of getCommandInvocation: a status with the command's        *)
(* standard error, or an error.                                            *)
(***************************************************************************)
SuccessStatuses == {"Success", "Complete"}

FailureStatuses == {"Failed", "Cancelled", "TimedOut"}

OtherStatuses == {"Pending", "InProgress", UNDEF}

StatusAnswer(s, d) ==
    [kind |-> "status", Status |-> s, StandardErrorContent |-> d,
     error |-> NoError]

ErrorAnswer(e) ==
    [kind |-> "error", Status |-> UNDEF, StandardErrorContent |-> UNDEF,
     error |-> e]

NoPoll ==
    [kind |-> "none", Status |-> UNDEF, StandardErrorContent |-> UNDEF,
     error |-> NoError]

InvocationDoesNotExist ==
    Err("InvocationDoesNotExist", "the invocation does not exist")

ThrottlingException == Err("ThrottlingException", "Rate exceeded")

PollAnswers ==
    {StatusAnswer(s, UNDEF) : s \in SuccessStatuses \cup OtherStatuses}
    \cup {StatusAnswer(s, d) :
            s \in FailureStatuses, d \in {UNDEF, "package failed"}}
    \cup {ErrorAnswer(InvocationDoesNotExist), ErrorAnswer(ThrottlingException)}

instanceId(k) == event[k].id

state(k) == event[k].state

snsTopicArn == env

NoCall ==
    [op |-> "none", instanceId |-> UNDEF, snsTopicArn |-> UNDEF,
     instanceInfo |-> NoInfo, repeat |-> FALSE,
     before |-> EmptyStore, first |-> EmptyStore, after |-> EmptyStore]

Init ==
    /\ env \in EnvValues
    /\ alarms = EmptyStore
    /\ params = EmptyStore
    /\ pc = [k \in Slots |-> "idle"]
    /\ event = [k \in Slots |-> NoEvent]
    /\ commandId = [k \in Slots |-> UNDEF]
    /\ returnTo = [k \in Slots |-> "none"]
    /\ attempts = [k \in Slots |-> 0]
    /\ instanceInfo = [k \in Slots |-> NoInfo]
    /\ result = [k \in Slots |-> Pending]
    /\ calls = [k \in Slots |-> <<>>]
    /\ polls = [k \in Slots |-> 0]
    /\ waited = [k \in Slots |-> 0]
    /\ lastPoll = [k \in Slots |-> NoPoll]
    /\ last = NoCall
    /\ chained = [k \in Slots |-> FALSE]

(***************************************************************************)
(* Steps shared by the actions.                                            *)
(***************************************************************************)
\* k issues a remote request.
Issue(k, req) == calls' = [calls EXCEPT ![k] = Append(@, req)]

\* k polls: the log keeps one entry for a run of polls of the same command,
\* and polls counts them.
IssuePoll(k, req) ==
    /\ calls' = [calls EXCEPT ![k] =
                  IF @ # <<>> /\ @[Len(@)] = req THEN @ ELSE Append(@, req)]
    /\ polls' = [polls EXCEPT ![k] = @ + 1]

\* Faulty variant: installCloudWatchAgent's catch block logs the error and does not
\* rethrow it, so the handler goes on to createAlarms.
ThrowSwallowedByProvisioner(k, e) ==
    IF pc[k] \in {"install", "poll", "putParameter", "configure"}
    THEN /\ pc' = [pc EXCEPT ![k] = "describe"]
         /\ UNCHANGED result
    ELSE /\ pc' = [pc EXCEPT ![k] = "done"]
         /\ result' = [result EXCEPT ![k] = [state |-> "rejected", error |-> e]]

\* An error leaves the function that throws it, passes the catch blocks of
\* installCloudWatchAgent, createAlarms or deleteAlarms and of the handler,
\* each of which logs and rethrows it, and rejects the handler's promise.
Throw(k, e) ==
    /\ pc' = [pc EXCEPT ![k] = "done"]
    /\ result' = [result EXCEPT ![k] = Rejected(e)]

Goto(k, label) ==
    /\ pc' = [pc EXCEPT ![k] = label]
    /\ UNCHANGED result

\* The handler's promise resolves.
Resolve(k) ==
    /\ pc' = [pc EXCEPT ![k] = "done"]
    /\ result' = [result EXCEPT ![k] = Fulfilled]

(***************************************************************************)
(* The Lambda runtime hands an event to the handler.                       *)
(***************************************************************************)
InvokeWith(k, events) ==
    /\ pc[k] = "idle"
    /\ \E e \in events : event' = [event EXCEPT ![k] = e]
    /\ pc' = [pc EXCEPT ![k] = "handler"]
    /\ UNCHANGED <<env, remote, commandId, returnTo, instanceInfo, result,
                   calls, waiter, last, chained>>

Invoke(k) == InvokeWith(k, Events)

(***************************************************************************)
(* handler, up to its first await: the checks of the environment and of    *)
(* the event, then the branch on state.                                    *)
(***************************************************************************)
TypeOf(detail) == IF detail = "null" THEN "object" ELSE detail

DetailTruthy(detail) == detail \notin {"undefined", "null"}

\* Faulty variant: detail.state is not checked.
ValidationFailureNoStateCheck(e) ==
    IF ~Truthy(snsTopicArn)
    THEN Err(UNDEF, "SNS_TOPIC_ARN environment variable is not set")
    ELSE IF ~DetailTruthy(e.detail) \/ TypeOf(e.detail) # "object"
    THEN Err(UNDEF, "Invalid event structure: missing or invalid detail object")
    ELSE IF ~Truthy(e.id)
    THEN Err(UNDEF, "Invalid event structure: missing instance-id")
    ELSE NoError

\* Faulty variant: the environment is checked after the event.
ValidationFailureEnvLast(e) ==
    IF ~DetailTruthy(e.detail) \/ TypeOf(e.detail) # "object"
    THEN Err(UNDEF, "Invalid event structure: missing or invalid detail object")
    ELSE IF ~Truthy(e.id)
    THEN Err(UNDEF, "Invalid event structure: missing instance-id")
    ELSE IF ~Truthy(e.state)
    THEN Err(UNDEF, "Invalid event structure: missing state")
    ELSE IF ~Truthy(snsTopicArn)
    THEN Err(UNDEF, "SNS_TOPIC_ARN environment variable is not set")
    ELSE NoError

ValidationFailure(e) ==
    IF ~Truthy(snsTopicArn)
    THEN Err(UNDEF, "SNS_TOPIC_ARN environment variable is not set")
    ELSE IF ~DetailTruthy(e.detail) \/ TypeOf(e.detail) # "object"
    THEN Err(UNDEF, "Invalid event structure: missing or invalid detail object")
    ELSE IF ~Truthy(e.id)
    THEN Err(UNDEF, "Invalid event structure: missing instance-id")
    ELSE IF ~Truthy(e.state)
    THEN Err(UNDEF, "Invalid event structure: missing state")
    ELSE NoError

\* Faulty variant: every state but running deletes the alarms.
BranchElseDeletes(s) == IF s = "running" THEN "install" ELSE "deleteAlarms"

Branch(s) ==
    IF s = "running" THEN "install"
    ELSE IF s = "terminated" THEN "deleteAlarms"
    ELSE "return"

Handler(k) ==
    /\ pc[k] = "handler"
    /\ IF ValidationFailure(event[k]) # NoError
       THEN Throw(k, ValidationFailure(event[k]))
       ELSE IF Branch(state(k)) = "return"
       THEN Resolve(k)
       ELSE Goto(k, Branch(state(k)))
    /\ UNCHANGED <<env, remote, event, commandId, returnTo, instanceInfo,
                   calls, waiter, last, chained>>


(***************************************************************************)
(* installCloudWatchAgent: send the install command, wait for it, put the  *)
(* agent's configuration, send the configure command, wait for it.         *)
(***************************************************************************)
SendCommandAnswers(step) ==
    {[kind |-> "ok", CommandId |-> c, error |-> NoError] :
        c \in {NewCommandId(step), UNDEF}}
    \cup {[kind |-> "error", CommandId |-> UNDEF,
           error |-> ServiceError("sendCommand")]}

\* Where installCloudWatchAgent goes on once a command is done with.
AfterCommand(step) == IF step = "install" THEN "putParameter" ELSE "describe"

\* await ssm.sendCommand(...), then: if (result.Command?.CommandId) await
\* waitForCommandCompletion(instanceId, result.Command.CommandId).
SendCommand(k, step, req) ==
    /\ Issue(k, req)
    /\ \E ans \in SendCommandAnswers(step) :
        IF ans.kind = "error"
        THEN /\ Throw(k, ans.error)
             /\ UNCHANGED <<commandId, returnTo>>
        ELSE /\ commandId' = [commandId EXCEPT ![k] = ans.CommandId]
             /\ IF Truthy(ans.CommandId)
                THEN /\ returnTo' = [returnTo EXCEPT ![k] = step]
                     /\ Goto(k, "wait")
                ELSE /\ UNCHANGED returnTo
                     /\ Goto(k, AfterCommand(step))
    /\ UNCHANGED <<env, remote, event, instanceInfo, waiter, last, chained>>

InstallSendCommand(k) ==
    /\ pc[k] = "install"
    /\ SendCommand(k, "install", InstallRequest(instanceId(k)))

ConfigureSendCommand(k) ==
    /\ pc[k] = "configure"
    /\ SendCommand(k, "configure", ConfigureRequest(instanceId(k)))

PutParameter(k) ==
    /\ pc[k] = "putParameter"
    /\ Issue(k, PutParameterRequest(instanceId(k)))
    /\ \/ /\ params' = Upsert(params, parameterName(instanceId(k)),
                              PutParameterRequest(instanceId(k)))
          /\ Goto(k, "configure")
       \/ /\ Throw(k, ServiceError("putParameter"))
          /\ UNCHANGED params
    /\ UNCHANGED <<env, alarms, event, commandId, returnTo, instanceInfo,
                   waiter, last, chained>>

(***************************************************************************)
(* waitForCommandCompletion.                                               *)
(***************************************************************************)
\* let attempts = 0; await the initial delay.
WaitInitialDelay(k) ==
    /\ pc[k] = "wait"
    /\ attempts' = [attempts EXCEPT ![k] = 0]
    /\ polls' = [polls EXCEPT ![k] = 0]
    /\ waited' = [waited EXCEPT ![k] = initialDelayMs]
    /\ lastPoll' = [lastPoll EXCEPT ![k] = NoPoll]
    /\ Goto(k, "poll")
    /\ UNCHANGED <<env, remote, event, commandId, returnTo, instanceInfo,
                   calls, last, chained>>

\* Faulty variant: the loop runs once more.
LoopConditionInclusive(a) == a <= maxAttempts

LoopCondition(a) == a < maxAttempts

\* result.Status || ''
StatusOrEmpty(s) == IF Truthy(s) THEN s ELSE ""

\* Faulty variant: a command still in progress counts as done.
IsSuccessOrInProgress(s) ==
    StatusOrEmpty(s) \in SuccessStatuses \cup {"InProgress"}

IsSuccess(s) == StatusOrEmpty(s) \in SuccessStatuses

\* Faulty variant: every status that is neither a success nor InProgress
\* counts as a failure.
IsFailureUnlessInProgress(s) ==
    StatusOrEmpty(s) \notin SuccessStatuses \cup {"InProgress"}

IsFailure(s) == StatusOrEmpty(s) \in FailureStatuses

CommandFailed(ans) ==
    Err(UNDEF, "Command failed with status " \o ans.Status \o ": "
               \o ans.StandardErrorContent)

CommandTimedOut ==
    Err(UNDEF, "Command timed out after " \o ToString(maxAttempts * 10)
               \o " seconds")

\* What the try block throws on an answer, NoError if it throws nothing.
Thrown(ans) ==
    IF ans.kind = "error" THEN ans.error
    ELSE IF IsSuccess(ans.Status) THEN NoError
    ELSE IF IsFailure(ans.Status) THEN CommandFailed(ans)
    ELSE NoError

\* Faulty variant: the catch block retries whatever was thrown.
IsRetriedWhateverThrown(error) == error # NoError

\* The catch block's test: the error is retried, not rethrown.
IsRetried(error) == error.code = "InvocationDoesNotExist"

\* Faulty variant: the waiter sleeps and does not count the attempt.
SleepWithoutCount(k) ==
    /\ waited' = [waited EXCEPT ![k] = @ + 10000]
    /\ UNCHANGED attempts

\* await the poll interval; attempts++
SleepAndCount(k) ==
    /\ waited' = [waited EXCEPT ![k] = @ + pollIntervalMs]
    /\ attempts' = [attempts EXCEPT ![k] = @ + 1]

\* One turn of the while loop, getCommandInvocation answering one of answers.
WaitPollWith(k, answers) ==
    /\ pc[k] = "poll"
    /\ LoopCondition(attempts[k])
    /\ IssuePoll(k, PollRequest(instanceId(k), commandId[k]))
    /\ \E ans \in answers :
        /\ lastPoll' = [lastPoll EXCEPT ![k] = ans]
        /\ IF Thrown(ans) # NoError
           THEN IF IsRetried(Thrown(ans))
                THEN SleepAndCount(k) /\ Goto(k, "poll")
                ELSE Throw(k, Thrown(ans)) /\ UNCHANGED <<waited, attempts>>
           ELSE IF IsSuccess(ans.Status)
                THEN Goto(k, "waited") /\ UNCHANGED <<waited, attempts>>
                ELSE SleepAndCount(k) /\ Goto(k, "poll")
    /\ UNCHANGED <<env, remote, event, commandId, returnTo, instanceInfo,
                   last, chained>>

WaitPoll(k) == WaitPollWith(k, PollAnswers)

\* The waiter has returned: its locals are gone and installCloudWatchAgent
\* resumes after the await.
WaitReturn(k) ==
    /\ pc[k] = "waited"
    /\ Goto(k, AfterCommand(returnTo[k]))
    /\ returnTo' = [returnTo EXCEPT ![k] = "none"]
    /\ commandId' = [commandId EXCEPT ![k] = UNDEF]
    /\ attempts' = [attempts EXCEPT ![k] = 0]
    /\ polls' = [polls EXCEPT ![k] = 0]
    /\ waited' = [waited EXCEPT ![k] = 0]
    /\ lastPoll' = [lastPoll EXCEPT ![k] = NoPoll]
    /\ UNCHANGED <<env, remote, event, instanceInfo, calls, last, chained>>

\* The loop ends without a return.
WaitTimedOut(k) ==
    /\ pc[k] = "poll"
    /\ ~LoopCondition(attempts[k])
    /\ Throw(k, CommandTimedOut)
    /\ UNCHANGED <<env, remote, event, commandId, returnTo, instanceInfo,
                   calls, waiter, last, chained>>


(***************************************************************************)
(* createAlarms: getInstanceInfo, then the two putMetricAlarm calls.       *)
(***************************************************************************)
\* The call that last records: calls are recorded where invocations run one
\* at a time, so that nothing else touches the alarms between two of them.
Observe(call) == IF DOMAIN pc = Slots THEN call ELSE NoCall

InstanceNotFound(id) ==
    Err(UNDEF, "Could not find instance information for instance " \o id)

\* Faulty variant: the image id is not tested.
InfoMissingIgnoresImageId(ans) == ~ans.found \/ ~Truthy(ans.instanceType)

\* getInstanceInfo's test of Reservations?.[0]?.Instances?.[0].
InfoMissing(ans) ==
    ~ans.found \/ ~Truthy(ans.instanceType) \/ ~Truthy(ans.imageId)

\* Whether a createAlarms call with this metadata repeats the last call.
RepeatsCreate(k, info) ==
    /\ last.op = "create"
    /\ last.instanceId = instanceId(k)
    /\ last.snsTopicArn = snsTopicArn
    /\ last.instanceInfo = info

GetInstanceInfo(k) ==
    /\ pc[k] = "describe"
    /\ Issue(k, DescribeRequest(instanceId(k)))
    /\ \/ /\ Throw(k, ServiceError("describeInstances"))
          /\ UNCHANGED <<instanceInfo, chained>>
       \/ \E ans \in DescribeAnswers :
            IF InfoMissing(ans)
            THEN /\ Throw(k, InstanceNotFound(instanceId(k)))
                 /\ UNCHANGED <<instanceInfo, chained>>
            ELSE LET info == [instanceType |-> ans.instanceType,
                              imageId |-> ans.imageId]
                 IN /\ instanceInfo' = [instanceInfo EXCEPT ![k] = info]
                    /\ chained' = [chained EXCEPT ![k] = RepeatsCreate(k, info)]
                    /\ Goto(k, "putCpu")
    /\ UNCHANGED <<env, remote, event, commandId, returnTo, waiter, last>>

PutCpuAlarm(k) ==
    /\ pc[k] = "putCpu"
    /\ LET alarm == CpuAlarm(instanceId(k), snsTopicArn)
       IN /\ Issue(k, PutAlarmRequest(alarm))
          /\ \/ /\ alarms' = Upsert(alarms, alarm.AlarmName, alarm)
                /\ last' = IF chained[k] THEN last ELSE NoCall
                /\ Goto(k, "putMemory")
             \/ /\ Throw(k, ServiceError("putMetricAlarm"))
                /\ last' = NoCall
                /\ UNCHANGED alarms
    /\ UNCHANGED <<env, params, event, commandId, returnTo, instanceInfo,
                   waiter, chained>>

PutMemoryAlarm(k) ==
    /\ pc[k] = "putMemory"
    /\ LET alarm == MemoryAlarm(instanceId(k), snsTopicArn, instanceInfo[k])
       IN /\ Issue(k, PutAlarmRequest(alarm))
          /\ \/ /\ alarms' = Upsert(alarms, alarm.AlarmName, alarm)
                /\ last' = Observe([op |-> "create",
                            instanceId |-> instanceId(k),
                            snsTopicArn |-> snsTopicArn,
                            instanceInfo |-> instanceInfo[k],
                            repeat |-> chained[k],
                            before |-> EmptyStore,
                            first |-> IF chained[k] THEN last.after ELSE alarms',
                            after |-> alarms'])
                /\ Resolve(k)
             \/ /\ Throw(k, ServiceError("putMetricAlarm"))
                /\ last' = NoCall
                /\ UNCHANGED alarms
    /\ UNCHANGED <<env, params, event, commandId, returnTo, instanceInfo,
                   waiter, chained>>

(***************************************************************************)
(* deleteAlarms: one deleteAlarms call naming both alarms.                 *)
(***************************************************************************)
RepeatsDelete(k) == last.op = "delete" /\ last.instanceId = instanceId(k)

DeleteAlarms(k) ==
    /\ pc[k] = "deleteAlarms"
    /\ Issue(k, DeleteAlarmsRequest(instanceId(k)))
    /\ \/ /\ alarms' = Remove(alarms, DeleteAlarmNames(instanceId(k)))
          /\ last' = Observe([op |-> "delete",
                      instanceId |-> instanceId(k),
                      snsTopicArn |-> UNDEF,
                      instanceInfo |-> NoInfo,
                      repeat |-> RepeatsDelete(k),
                      before |-> IF RepeatsDelete(k) THEN last.before ELSE alarms,
                      first |-> IF RepeatsDelete(k) THEN last.after ELSE alarms',
                      after |-> alarms'])
          /\ Resolve(k)
       \/ /\ Throw(k, ServiceError("deleteAlarms"))
          /\ last' = NoCall
          /\ UNCHANGED alarms
    /\ UNCHANGED <<env, params, event, commandId, returnTo, instanceInfo,
                   waiter, chained>>

(***************************************************************************)
(* The invocation is over: the runtime reports its result and the slot is  *)
(* free for the next event.                                                *)
(***************************************************************************)
Return(k) ==
    /\ pc[k] = "done"
    /\ pc' = [pc EXCEPT ![k] = "idle"]
    /\ event' = [event EXCEPT ![k] = NoEvent]
    /\ commandId' = [commandId EXCEPT ![k] = UNDEF]
    /\ returnTo' = [returnTo EXCEPT ![k] = "none"]
    /\ attempts' = [attempts EXCEPT ![k] = 0]
    /\ instanceInfo' = [instanceInfo EXCEPT ![k] = NoInfo]
    /\ result' = [result EXCEPT ![k] = Pending]
    /\ calls' = [calls EXCEPT ![k] = <<>>]
    /\ polls' = [polls EXCEPT ![k] = 0]
    /\ waited' = [waited EXCEPT ![k] = 0]
    /\ lastPoll' = [lastPoll EXCEPT ![k] = NoPoll]
    /\ chained' = [chained EXCEPT ![k] = FALSE]
    /\ UNCHANGED <<env, remote, last>>

Next ==
    \E k \in Slots :
        \/ Invoke(k)
        \/ Handler(k)
        \/ InstallSendCommand(k)
        \/ WaitInitialDelay(k)
        \/ WaitPoll(k)
        \/ WaitTimedOut(k)
        \/ WaitReturn(k)
        \/ PutParameter(k)
        \/ ConfigureSendCommand(k)
        \/ GetInstanceInfo(k)
        \/ PutCpuAlarm(k)
        \/ PutMemoryAlarm(k)
        \/ DeleteAlarms(k)
        \/ Return(k)

Spec == Init /\ [][Next]_vars

(***************************************************************************)
(* Two invocations at once.  The Lambda service runs an invocation per     *)
(* event, each in an execution environment of its own: the invocations     *)
(* share CloudWatch and the parameter store and nothing else, and their    *)
(* awaits interleave in any order.  The deployment is configured.          *)
(***************************************************************************)
ConcurrentSlots == {1, 2}

InitConcurrent ==
    /\ env \in Topics
    /\ alarms = EmptyStore
    /\ params = EmptyStore
    /\ pc = [k \in ConcurrentSlots |-> "idle"]
    /\ event = [k \in ConcurrentSlots |-> NoEvent]
    /\ commandId = [k \in ConcurrentSlots |-> UNDEF]
    /\ returnTo = [k \in ConcurrentSlots |-> "none"]
    /\ attempts = [k \in ConcurrentSlots |-> 0]
    /\ instanceInfo = [k \in ConcurrentSlots |-> NoInfo]
    /\ result = [k \in ConcurrentSlots |-> Pending]
    /\ calls = [k \in ConcurrentSlots |-> <<>>]
    /\ polls = [k \in ConcurrentSlots |-> 0]
    /\ waited = [k \in ConcurrentSlots |-> 0]
    /\ lastPoll = [k \in ConcurrentSlots |-> NoPoll]
    /\ last = NoCall
    /\ chained = [k \in ConcurrentSlots |-> FALSE]

\* The steps of an invocation once it has its event.
Step(k) ==
    \/ Handler(k)
    \/ InstallSendCommand(k)
    \/ WaitInitialDelay(k)
    \/ WaitPoll(k)
    \/ WaitTimedOut(k)
    \/ WaitReturn(k)
    \/ PutParameter(k)
    \/ ConfigureSendCommand(k)
    \/ GetInstanceInfo(k)
    \/ PutCpuAlarm(k)
    \/ PutMemoryAlarm(k)
    \/ DeleteAlarms(k)
    \/ Return(k)

\* One instance starts and is then terminated: its running event goes to
\* one invocation and its terminated event to the other, each of them any
\* number of times, in any order.
RunningEvent(i) == [detail |-> "object", id |-> i, state |-> "running"]

TerminatedEvent(i) == [detail |-> "object", id |-> i, state |-> "terminated"]

SameInstanceEvents(k) ==
    IF k = 1 THEN {RunningEvent("i-123")} ELSE {TerminatedEvent("i-123")}

InvokeSameInstance(k) == InvokeWith(k, SameInstanceEvents(k))

NextSameInstance ==
    \E k \in ConcurrentSlots : InvokeSameInstance(k) \/ Step(k)

SpecSameInstance == InitConcurrent /\ [][NextSameInstance]_vars

\* Two instances, each with an invocation of its own that is handed the
\* instance's running and terminated events, any number of times.  The
\* commands of the first invocation succeed after any number of polls or
\* never do; those of the second are answered with a terminal status at
\* their first poll.
TwoInstancesEvents(k) ==
    IF k = 1
    THEN {RunningEvent("i-123"), TerminatedEvent("i-123")}
    ELSE {RunningEvent("i-999"), TerminatedEvent("i-999")}

TerminalPollAnswers ==
    {StatusAnswer("Success", UNDEF), StatusAnswer("Failed", "package failed")}

SlowPollAnswers ==
    {StatusAnswer("Success", UNDEF), StatusAnswer("InProgress", UNDEF)}

TwoInstancesPollAnswers(k) ==
    IF k = 1 THEN SlowPollAnswers ELSE TerminalPollAnswers

InvokeTwoInstances(k) == InvokeWith(k, TwoInstancesEvents(k))

WaitPollTwoInstances(k) == WaitPollWith(k, TwoInstancesPollAnswers(k))

NextTwoInstances ==
    \E k \in ConcurrentSlots :
        \/ InvokeTwoInstances(k)
        \/ Handler(k)
        \/ InstallSendCommand(k)
        \/ WaitInitialDelay(k)
        \/ WaitPollTwoInstances(k)
        \/ WaitTimedOut(k)
        \/ WaitReturn(k)
        \/ PutParameter(k)
        \/ ConfigureSendCommand(k)
        \/ GetInstanceInfo(k)
        \/ PutCpuAlarm(k)
        \/ PutMemoryAlarm(k)
        \/ DeleteAlarms(k)
        \/ Return(k)

SpecTwoInstances == InitConcurrent /\ [][NextTwoInstances]_vars


(***************************************************************************)
(* Vocabulary of the properties.                                           *)
(***************************************************************************)
Running(k) == pc[k] # "idle"

Done(k) == pc[k] = "done"

Failed(k) == Done(k) /\ result[k].state = "rejected"

Succeeded(k) == Done(k) /\ result[k] = Fulfilled

\* The deployment has its notification target.
Configured == env \in Topics

\* The event carries detail["instance-id"] and detail.state.
WellFormed(e) ==
    /\ e.detail = "object"
    /\ e.id \in InstanceIds
    /\ e.state \in {"running", "terminated", "pending", "stopped"}

\* The event lacks detail (or detail is no object), instance-id or state.
Malformed(e) ==
    \/ e.detail \in {"undefined", "null", "string"}
    \/ e.id \in {UNDEF, ""}
    \/ e.state \in {UNDEF, ""}

\* The validation errors of the specification's taxonomy: a malformed event
\* or the missing configuration.
ValidationMessages ==
    {"SNS_TOPIC_ARN environment variable is not set",
     "Invalid event structure: missing or invalid detail object",
     "Invalid event structure: missing instance-id",
     "Invalid event structure: missing state"}

Ops(k) == {calls[k][n].op : n \in DOMAIN calls[k]}

\* The alarm names as the specification writes them.
ExpectedCpuName(i) ==
    IF i = "i-123" THEN "CPU-High-i-123" ELSE "CPU-High-i-999"

ExpectedMemoryName(i) ==
    IF i = "i-123" THEN "Memory-High-i-123" ELSE "Memory-High-i-999"

(***************************************************************************)
(* C1.  An event that lacks detail (or whose detail is not an object),     *)
(* detail["instance-id"] or detail.state makes the handler fail with a     *)
(* validation error, and the invocation has issued no remote request when  *)
(* it fails (nor at any other moment).                                     *)
(***************************************************************************)
C1_MalformedEventRejectedWithoutCalls ==
    \A k \in Slots :
        (Running(k) /\ Malformed(event[k])) =>
            /\ pc[k] \in {"handler", "done"}
            /\ calls[k] = <<>>
            /\ polls[k] = 0
            /\ Done(k) =>
                /\ result[k].state = "rejected"
                /\ result[k].error.code = UNDEF
                /\ result[k].error.message \in ValidationMessages

C1_Witness ==
    \E k \in Slots :
        /\ Failed(k)
        /\ Configured
        /\ event[k] = [detail |-> "object", id |-> "i-123", state |-> UNDEF]
        /\ result[k].error.message = "Invalid event structure: missing state"
        /\ calls[k] = <<>>


(***************************************************************************)
(* C2.  For a running event createAlarms starts only after                 *)
(* installCloudWatchAgent has gone through its steps (install command,     *)
(* parameter, configure command, in this order); an invocation that fails  *)
(* with a provisioning error has issued no describeInstances and no        *)
(* putMetricAlarm; and one that fails while it waits for the install       *)
(* command (the command resolves to Failed, say) has issued nothing but    *)
(* the install command and its polls, and is rejected with the waiter's    *)
(* error.                                                                  *)
(***************************************************************************)
CommandFailedMessages ==
    {"Command failed with status " \o s \o ": " \o d :
        s \in {"Failed", "Cancelled", "TimedOut"},
        d \in {"undefined", "package failed"}}

ProvisioningErrors ==
    {Err("ServiceUnavailable", "sendCommand failed"),
     Err("ServiceUnavailable", "putParameter failed"),
     Err("ThrottlingException", "Rate exceeded"),
     Err(UNDEF, "Command timed out after 300 seconds")}
    \cup {Err(UNDEF, m) : m \in CommandFailedMessages}

InCreateAlarms(k) ==
    \/ pc[k] \in {"describe", "putCpu", "putMemory"}
    \/ Ops(k) \cap {"describeInstances", "putMetricAlarm"} # {}

\* The provisioner's three requests are in the log, in order, before any
\* request of createAlarms, and the parameter is stored.
ProvisionedInOrder(k) ==
    /\ \E a, b, c \in DOMAIN calls[k] :
        /\ a < b /\ b < c
        /\ calls[k][a] = InstallRequest(instanceId(k))
        /\ calls[k][b] = PutParameterRequest(instanceId(k))
        /\ calls[k][c] = ConfigureRequest(instanceId(k))
        /\ \A n \in DOMAIN calls[k] :
            calls[k][n].op \in {"describeInstances", "putMetricAlarm"} => c < n
    /\ parameterName(instanceId(k)) \in DOMAIN params

C2_AlarmsOnlyAfterProvisioning ==
    \A k \in Slots :
        (Running(k) /\ WellFormed(event[k]) /\ state(k) = "running") =>
            /\ InCreateAlarms(k) => ProvisionedInOrder(k)
            /\ (Failed(k) /\ result[k].error \in ProvisioningErrors) =>
                Ops(k) \cap {"describeInstances", "putMetricAlarm"} = {}
            /\ (Done(k) /\ returnTo[k] = "install") =>
                /\ result[k].state = "rejected"
                /\ result[k].error \in ProvisioningErrors
                /\ calls[k] = <<InstallRequest(instanceId(k)),
                                PollRequest(instanceId(k), "cmd-1")>>
            /\ (returnTo[k] = "install" /\ lastPoll[k].Status = "Failed") =>
                /\ Failed(k)
                /\ result[k].error.message \in CommandFailedMessages

C2_Witness ==
    \E k \in Slots :
        /\ Failed(k)
        /\ state(k) = "running"
        /\ returnTo[k] = "install"
        /\ lastPoll[k].Status = "Failed"
        /\ calls[k] = <<InstallRequest("i-123"), PollRequest("i-123", "cmd-1")>>
        /\ result[k].error.message
            = "Command failed with status Failed: package failed"

(***************************************************************************)
(* C3.  The waiter returns only when the status of its most recent poll is *)
(* Success or Complete, and it returns on the first poll with such a       *)
(* status (every poll before it was counted as an attempt, none follows    *)
(* it); no other answer leads to a return.                                 *)
(***************************************************************************)
C3_ReturnOnlyOnSuccessStatus ==
    \A k \in Slots :
        /\ pc[k] = "waited" =>
            /\ lastPoll[k].kind = "status"
            /\ lastPoll[k].Status \in {"Success", "Complete"}
            /\ polls[k] = attempts[k] + 1
        /\ (lastPoll[k].kind = "status"
              /\ lastPoll[k].Status \in {"Success", "Complete"}) =>
            pc[k] = "waited"

C3_Witness ==
    \E k \in Slots :
        /\ pc[k] = "waited"
        /\ lastPoll[k].Status = "Complete"
        /\ attempts[k] = 2
        /\ polls[k] = 3

(***************************************************************************)
(* C4.  When a poll answers Failed, Cancelled or TimedOut the waiter fails *)
(* at once with the error "Command failed with status <status>: <standard  *)
(* error>": no poll follows, the failing poll is followed by no sleep and  *)
(* is not counted as an attempt, and the error is not the time-out error.  *)
(***************************************************************************)
C4_FailureStatusFailsAtOnce ==
    \A k \in Slots :
        (lastPoll[k].kind = "status"
           /\ lastPoll[k].Status \in {"Failed", "Cancelled", "TimedOut"}) =>
            /\ Failed(k)
            /\ result[k].error =
                Err(UNDEF, "Command failed with status " \o lastPoll[k].Status
                           \o ": " \o lastPoll[k].StandardErrorContent)
            /\ result[k].error.message # "Command timed out after 300 seconds"
            /\ polls[k] = attempts[k] + 1
            /\ waited[k] = 5000 + attempts[k] * 10000

C4_Witness ==
    \E k \in Slots :
        /\ Failed(k)
        /\ lastPoll[k].Status = "Cancelled"
        /\ attempts[k] = 1
        /\ polls[k] = 2
        /\ waited[k] = 15000
        /\ result[k].error.message
            = "Command failed with status Cancelled: undefined"

(***************************************************************************)
(* C5.  Whatever the polls answer, the waiter polls one command at most    *)
(* maxAttempts (30) times, and its attempt counter stays in                *)
(* 0..maxAttempts.                                                         *)
(***************************************************************************)
C5_PollsBounded ==
    \A k \in Slots :
        /\ polls[k] <= 30
        /\ attempts[k] \in 0..30
        /\ maxAttempts = 30

C5_Witness ==
    \E k \in Slots :
        /\ Failed(k)
        /\ polls[k] = 30
        /\ attempts[k] = 30
        /\ result[k].error.message = "Command timed out after 300 seconds"


(***************************************************************************)
(* C6.  For a terminated event with instance id i the invocation issues    *)
(* one remote request and no other: a deleteAlarms naming exactly          *)
(* CPU-High-i and Memory-High-i.  No command is sent, no status polled, no *)
(* parameter put, no instance described, no alarm put.                     *)
(***************************************************************************)
ExpectedDelete(i) ==
    [op |-> "deleteAlarms",
     AlarmNames |-> <<ExpectedCpuName(i), ExpectedMemoryName(i)>>]

C6_TerminatedOnlyDeletes ==
    \A k \in Slots :
        (Running(k) /\ WellFormed(event[k]) /\ state(k) = "terminated") =>
            /\ pc[k] \in {"handler", "deleteAlarms", "done"}
            /\ calls[k] \in {<<>>, <<ExpectedDelete(instanceId(k))>>}
            /\ polls[k] = 0
            /\ (Done(k) /\ Configured) =>
                calls[k] = <<ExpectedDelete(instanceId(k))>>

C6_Witness ==
    \E k \in Slots :
        /\ Succeeded(k)
        /\ event[k] = [detail |-> "object", id |-> "i-999", state |-> "terminated"]
        /\ calls[k] =
            <<[op |-> "deleteAlarms",
               AlarmNames |-> <<"CPU-High-i-999", "Memory-High-i-999">>]>>

(***************************************************************************)
(* C7.  In a configured deployment, a well-formed event whose state is     *)
(* neither running nor terminated (pending, stopped) issues no remote      *)
(* request, completes without error, and no step of its invocation changes *)
(* the alarms or the parameters.                                           *)
(***************************************************************************)
OtherState(k) ==
    /\ Running(k)
    /\ Configured
    /\ WellFormed(event[k])
    /\ state(k) \notin {"running", "terminated"}

C7_OtherStateIsNoOp ==
    /\ [](\A k \in Slots :
            OtherState(k) =>
                /\ pc[k] \in {"handler", "done"}
                /\ calls[k] = <<>>
                /\ polls[k] = 0
                /\ Done(k) => result[k] = Fulfilled)
    /\ [][\A k \in Slots : OtherState(k) => UNCHANGED <<alarms, params>>]_vars

C7_Witness ==
    \E k \in Slots :
        /\ Succeeded(k)
        /\ event[k] = [detail |-> "object", id |-> "i-123", state |-> "pending"]
        /\ calls[k] = <<>>
        /\ "CPU-High-i-123" \in DOMAIN alarms
        /\ "/cloudwatch-agent/config/i-123" \in DOMAIN params

(***************************************************************************)
(* C8.  deleteAlarms(i) is idempotent.  After a call that succeeded both   *)
(* alarms of i are absent, whichever of them were present before; a second *)
(* call right after it leaves the alarms exactly as the first left them;   *)
(* and the only error a deleteAlarms call raises is the service's own      *)
(* failure, never the absence of an alarm.                                 *)
(***************************************************************************)
C8_DeleteIdempotent ==
    /\ last.op = "delete" =>
        /\ ExpectedCpuName(last.instanceId) \notin DOMAIN last.after
        /\ ExpectedMemoryName(last.instanceId) \notin DOMAIN last.after
        /\ last.repeat => last.after = last.first
    /\ \A k \in Slots :
        (Failed(k) /\ Configured /\ WellFormed(event[k])
           /\ state(k) = "terminated") =>
            result[k].error = Err("ServiceUnavailable", "deleteAlarms failed")

C8_Witness ==
    /\ last.op = "delete"
    /\ last.repeat
    /\ last.instanceId = "i-123"
    /\ {"CPU-High-i-123", "Memory-High-i-123"} \subseteq DOMAIN last.before
    /\ \E k \in Slots : Succeeded(k) /\ state(k) = "terminated"

(***************************************************************************)
(* C9.  createAlarms(i, t) is idempotent.  A call that succeeds leaves     *)
(* exactly two alarms of i, CPU-High-i and Memory-High-i; a second call    *)
(* right after it, with the same target and the same instance metadata,    *)
(* leaves the alarms exactly as the first left them: it replaces, it adds  *)
(* nothing.                                                                *)
(***************************************************************************)
Owner(alarm) == alarm.Dimensions[1].Value

AlarmsOf(store, i) == {n \in DOMAIN store : Owner(store[n]) = i}

C9_CreateIdempotent ==
    last.op = "create" =>
        /\ AlarmsOf(last.after, last.instanceId)
            = {ExpectedCpuName(last.instanceId),
               ExpectedMemoryName(last.instanceId)}
        /\ last.after[ExpectedCpuName(last.instanceId)].AlarmActions
            = <<last.snsTopicArn>>
        /\ last.after[ExpectedMemoryName(last.instanceId)].Dimensions[2].Value
            = last.instanceInfo.instanceType
        /\ last.repeat => last.after = last.first

C9_Witness ==
    /\ last.op = "create"
    /\ last.repeat
    /\ last.instanceId = "i-123"
    /\ DOMAIN last.after = {"CPU-High-i-123", "Memory-High-i-123"}
    /\ \E k \in Slots : Succeeded(k) /\ state(k) = "running"

(***************************************************************************)
(* C10.  Alarm names are a function of the kind and the instance id, free  *)
(* of collisions.  Every putMetricAlarm and deleteAlarms request of an     *)
(* invocation for i names CPU-High-i and Memory-High-i; every alarm in     *)
(* CloudWatch is stored under the name of its kind and its instance; no    *)
(* request of an invocation for i names an alarm of another instance; and  *)
(* deleteAlarms(i) names exactly the alarms createAlarms(i, t) made, so    *)
(* that none of i is left after it.                                        *)
(***************************************************************************)
ExpectedName(alarm) ==
    IF alarm.MetricName = "CPUUtilization"
    THEN ExpectedCpuName(Owner(alarm))
    ELSE ExpectedMemoryName(Owner(alarm))

NamesUsed(k) ==
    {calls[k][n].alarm.AlarmName :
        n \in {m \in DOMAIN calls[k] : calls[k][m].op = "putMetricAlarm"}}
    \cup UNION {Range(calls[k][n].AlarmNames) :
        n \in {m \in DOMAIN calls[k] : calls[k][m].op = "deleteAlarms"}}

C10_AlarmNamesDeterministic ==
    /\ \A k \in Slots :
        (Running(k) /\ WellFormed(event[k])) =>
            /\ \A n \in DOMAIN calls[k] :
                /\ calls[k][n].op = "putMetricAlarm" =>
                    /\ Owner(calls[k][n].alarm) = instanceId(k)
                    /\ calls[k][n].alarm.AlarmName
                        = ExpectedName(calls[k][n].alarm)
                /\ calls[k][n].op = "deleteAlarms" =>
                    calls[k][n] = ExpectedDelete(instanceId(k))
            /\ \A n \in DOMAIN alarms :
                Owner(alarms[n]) # instanceId(k) => n \notin NamesUsed(k)
    /\ \A n \in DOMAIN alarms : n = ExpectedName(alarms[n])
    /\ last.op = "delete" => AlarmsOf(last.after, last.instanceId) = {}
    /\ last.op = "create" =>
        Cardinality(AlarmsOf(last.after, last.instanceId)) = 2

C10_Witness ==
    /\ last.op = "delete"
    /\ last.instanceId = "i-123"
    /\ DOMAIN last.before = {"CPU-High-i-123", "Memory-High-i-123",
                             "CPU-High-i-999", "Memory-High-i-999"}
    /\ DOMAIN alarms = {"CPU-High-i-999", "Memory-High-i-999"}
    /\ \E k \in Slots : Succeeded(k) /\ instanceId(k) = "i-123"

(***************************************************************************)
(* C11.  A running event for instance i with target t whose invocation     *)
(* succeeds (both commands resolved to success, the metadata was found)    *)
(* has sent the install command and then the configure command for i and   *)
(* has put exactly two alarms: CPU-High-i, threshold 80, dimensioned by    *)
(* the instance id alone, then Memory-High-i, threshold 75, dimensioned by *)
(* the instance id, the instance type and the image id that                *)
(* describeInstances answered; the actions of each are exactly <<t>>, and  *)
(* both are in CloudWatch as put.                                          *)
(***************************************************************************)
Puts(k) ==
    SelectSeq(calls[k], LAMBDA r : r.op = "putMetricAlarm")

Commands(k) ==
    SelectSeq(calls[k], LAMBDA r : r.op = "sendCommand")

C11_RunningCreatesBothAlarms ==
    \A k \in Slots :
        (Succeeded(k) /\ state(k) = "running") =>
            /\ Len(Commands(k)) = 2
            /\ Commands(k)[1].DocumentName = "AWS-ConfigureAWSPackage"
            /\ Commands(k)[1].InstanceIds = <<instanceId(k)>>
            /\ Commands(k)[2].DocumentName = "AmazonCloudWatch-ManageAgent"
            /\ Commands(k)[2].InstanceIds = <<instanceId(k)>>
            /\ instanceInfo[k] \in InstanceInfos
            /\ Len(Puts(k)) = 2
            /\ LET cpu == Puts(k)[1].alarm
                   mem == Puts(k)[2].alarm
               IN /\ cpu.AlarmName = ExpectedCpuName(instanceId(k))
                  /\ cpu.Threshold = 80
                  /\ cpu.Dimensions = <<Dim("InstanceId", instanceId(k))>>
                  /\ cpu.AlarmActions = <<env>>
                  /\ mem.AlarmName = ExpectedMemoryName(instanceId(k))
                  /\ mem.Threshold = 75
                  /\ mem.Dimensions =
                        <<Dim("InstanceId", instanceId(k)),
                          Dim("InstanceType", instanceInfo[k].instanceType),
                          Dim("ImageId", instanceInfo[k].imageId)>>
                  /\ mem.AlarmActions = <<env>>
                  /\ alarms[cpu.AlarmName] = cpu
                  /\ alarms[mem.AlarmName] = mem

C11_Witness ==
    \E k \in Slots :
        /\ Succeeded(k)
        /\ event[k] = [detail |-> "object", id |-> "i-123", state |-> "running"]
        /\ Len(calls[k]) = 8
        /\ calls[k][2] = PollRequest("i-123", "cmd-1")
        /\ calls[k][5] = PollRequest("i-123", "cmd-2")
        /\ instanceInfo[k] = [instanceType |-> "t3.large", imageId |-> "ami-1"]
        /\ alarms["Memory-High-i-123"].Dimensions[2].Value = "t3.large"
        /\ alarms["CPU-High-i-123"].Threshold = 80

(***************************************************************************)
(* C12.  A running and a terminated event for the same instance, handled   *)
(* by two invocations that are not coordinated: once both invocations have *)
(* completed with success (the instance's last transition being its        *)
(* termination), neither CPU-High-i nor Memory-High-i exists.              *)
(***************************************************************************)
C12_TerminatedInstanceHasNoAlarms ==
    (/\ Succeeded(1) /\ event[1] = RunningEvent("i-123")
     /\ Succeeded(2) /\ event[2] = TerminatedEvent("i-123")) =>
        /\ "CPU-High-i-123" \notin DOMAIN alarms
        /\ "Memory-High-i-123" \notin DOMAIN alarms

(***************************************************************************)
(* C13.  Without SNS_TOPIC_ARN every invocation fails in the handler's     *)
(* first check, whatever its event holds (well-formed or not): it issues   *)
(* no remote request, changes neither store, and is rejected with the      *)
(* error "SNS_TOPIC_ARN environment variable is not set", which is none of *)
(* the errors an event is rejected with; and a configured deployment never *)
(* fails with this error.                                                  *)
(***************************************************************************)
EventMessages ==
    {"Invalid event structure: missing or invalid detail object",
     "Invalid event structure: missing instance-id",
     "Invalid event structure: missing state"}

C13_MissingTopicFailsFirst ==
    /\ ~Configured => alarms = EmptyStore /\ params = EmptyStore
    /\ \A k \in Slots :
        /\ (Running(k) /\ ~Configured) =>
            /\ pc[k] \in {"handler", "done"}
            /\ calls[k] = <<>>
            /\ polls[k] = 0
            /\ Done(k) =>
                /\ result[k].state = "rejected"
                /\ result[k].error.code = UNDEF
                /\ result[k].error.message
                    = "SNS_TOPIC_ARN environment variable is not set"
                /\ result[k].error.message \notin EventMessages
        /\ (Done(k) /\ Configured) =>
            result[k].error.message
                # "SNS_TOPIC_ARN environment variable is not set"

C13_Witness ==
    \E k \in Slots :
        /\ Failed(k)
        /\ env = UNDEF
        /\ event[k] = [detail |-> "undefined", id |-> UNDEF, state |-> UNDEF]
        /\ result[k].error.message
            = "SNS_TOPIC_ARN environment variable is not set"
        /\ calls[k] = <<>>

(***************************************************************************)
(* C14.  What the waiter does with a poll that answers neither a terminal  *)
(* status nor the error InvocationDoesNotExist.                            *)
(***************************************************************************)
OtherStatusPolled(k) ==
    lastPoll[k].kind = "status"
    /\ lastPoll[k].Status \notin
        {"Success", "Complete", "Failed", "Cancelled", "TimedOut"}

OtherErrorPolled(k) ==
    lastPoll[k].kind = "error"
    /\ lastPoll[k].error.code # "InvocationDoesNotExist"

\* The poll was counted and slept on, and the waiter polls again or, with
\* its attempts used up, has failed with the time-out error.
RetriedOrTimedOut(k) ==
    /\ polls[k] = attempts[k]
    /\ waited[k] = 5000 + attempts[k] * 10000
    /\ \/ pc[k] = "poll"
       \/ /\ Failed(k)
          /\ attempts[k] = 30
          /\ result[k].error.message = "Command timed out after 300 seconds"

\* C14 as the claim has it: a status outside the terminal sets and an error
\* other than InvocationDoesNotExist are both retried while attempts
\* remain and end in the time-out error; neither aborts the waiter.
C14_OtherStatusAndOtherErrorRetried ==
    \A k \in Slots :
        (OtherStatusPolled(k) \/ OtherErrorPolled(k)) => RetriedOrTimedOut(k)

\* C14, amended: a status outside the terminal sets is retried after the
\* poll interval while attempts remain and ends in the time-out error; an
\* error other than InvocationDoesNotExist aborts the waiter at once, with
\* attempts remaining: the waiter fails with that very error, the poll is
\* neither counted nor slept on.
C14_OtherStatusRetriedOtherErrorRethrown ==
    \A k \in Slots :
        /\ OtherStatusPolled(k) => RetriedOrTimedOut(k)
        /\ OtherErrorPolled(k) =>
            /\ Failed(k)
            /\ result[k].error = lastPoll[k].error
            /\ attempts[k] < 30
            /\ polls[k] = attempts[k] + 1
            /\ waited[k] = 5000 + attempts[k] * 10000

C14_Witness ==
    \E k \in Slots :
        /\ Failed(k)
        /\ lastPoll[k].kind = "error"
        /\ result[k].error = Err("ThrottlingException", "Rate exceeded")
        /\ attempts[k] = 1
        /\ polls[k] = 2
        /\ waited[k] = 15000

(***************************************************************************)
(* C15.  A poll that raises InvocationDoesNotExist uses up an attempt of   *)
(* the one budget of maxAttempts (30), like a poll that answers a pending  *)
(* status: after it the polls made equal the attempts counted, and the     *)
(* waiter polls again or has timed out.  A waiter that times out, whatever *)
(* mix of InvocationDoesNotExist and pending statuses it was answered, has *)
(* polled exactly 30 times and fails with the time-out error; no waiter    *)
(* polls more often.                                                       *)
(***************************************************************************)
NotYetMaterialized(k) ==
    lastPoll[k].kind = "error"
    /\ lastPoll[k].error.code = "InvocationDoesNotExist"

C15_NotYetMaterializedCountsAsAttempt ==
    \A k \in Slots :
        /\ polls[k] <= 30
        /\ NotYetMaterialized(k) =>
            /\ attempts[k] \in 1..30
            /\ polls[k] = attempts[k]
            /\ waited[k] = 5000 + attempts[k] * 10000
            /\ \/ pc[k] = "poll"
               \/ /\ Failed(k)
                  /\ attempts[k] = 30
                  /\ result[k].error.message
                      = "Command timed out after 300 seconds"
        /\ (pc[k] = "poll" /\ attempts[k] = 30) => polls[k] = 30
        /\ (Failed(k) /\ result[k].error.message
                            = "Command timed out after 300 seconds") =>
            /\ polls[k] = 30
            /\ attempts[k] = 30
            /\ NotYetMaterialized(k) \/ OtherStatusPolled(k)

C15_Witness ==
    \E k \in Slots :
        /\ Failed(k)
        /\ lastPoll[k].error.code = "InvocationDoesNotExist"
        /\ polls[k] = 30
        /\ attempts[k] = 30
        /\ waited[k] = 305000
        /\ result[k].error.message = "Command timed out after 300 seconds"

(***************************************************************************)
(* C16.  installCloudWatchAgent's steps are gated on one another, whatever *)
(* sendCommand answers: the parameter is put and the configure command     *)
(* sent only after the install command was sent, answered with a command   *)
(* id, and polled by the waiter until the waiter returned; and             *)
(* installCloudWatchAgent returns (createAlarms starts) only after the     *)
(* waiter has also polled the configure command and returned.              *)
(***************************************************************************)
C16_StepsGatedOnWaiter ==
    \A k \in Slots :
        (Running(k) /\ WellFormed(event[k]) /\ state(k) = "running") =>
            /\ (\E n \in DOMAIN calls[k] :
                    calls[k][n] \in {PutParameterRequest(instanceId(k)),
                                     ConfigureRequest(instanceId(k))}) =>
                /\ Len(calls[k]) >= 3
                /\ calls[k][1] = InstallRequest(instanceId(k))
                /\ calls[k][2] = PollRequest(instanceId(k), "cmd-1")
            /\ (InCreateAlarms(k) \/ Succeeded(k)) =>
                \E n \in DOMAIN calls[k] :
                    /\ n > 1
                    /\ calls[k][n - 1] = ConfigureRequest(instanceId(k))
                    /\ calls[k][n] = PollRequest(instanceId(k), "cmd-2")

(***************************************************************************)
(* C17.  A running event has no partial success.  The invocation returns   *)
(* success only when every step was made and succeeded: the install        *)
(* command sent and confirmed complete by the waiter, the parameter put,   *)
(* the configure command sent and confirmed complete, the instance         *)
(* described, the CPU alarm put, the memory alarm put.  An invocation that *)
(* fails has made its steps in this order and none after the one that      *)
(* failed, and is rejected with an error.                                  *)
(***************************************************************************)
EveryStep(k) ==
    <<InstallRequest(instanceId(k)),
      PollRequest(instanceId(k), "cmd-1"),
      PutParameterRequest(instanceId(k)),
      ConfigureRequest(instanceId(k)),
      PollRequest(instanceId(k), "cmd-2"),
      DescribeRequest(instanceId(k)),
      PutAlarmRequest(CpuAlarm(instanceId(k), env)),
      PutAlarmRequest(MemoryAlarm(instanceId(k), env, instanceInfo[k]))>>

Position(k, request) == CHOOSE n \in 1..8 : EveryStep(k)[n] = request

C17_SuccessOnlyIfEveryStepSucceeded ==
    \A k \in Slots :
        (Done(k) /\ WellFormed(event[k]) /\ Configured
           /\ state(k) = "running") =>
            /\ Succeeded(k) => calls[k] = EveryStep(k)
            /\ Failed(k) =>
                /\ result[k].error # NoError
                /\ \A n \in DOMAIN calls[k] : calls[k][n] \in Range(EveryStep(k))
                /\ \A m, n \in DOMAIN calls[k] :
                    m < n => Position(k, calls[k][m]) < Position(k, calls[k][n])

(***************************************************************************)
(* C18.  createAlarms describes the instance before it puts an alarm.      *)
(* When describeInstances has no record of the instance, or the record     *)
(* lacks the instance type or the image id, createAlarms fails with "Could *)
(* not find instance information for instance <i>" and has issued no       *)
(* putMetricAlarm: the step leaves the alarms as they were, created or     *)
(* not.  An alarm is put only with complete metadata in hand, and the      *)
(* memory alarm only right after the CPU alarm of the same call was put    *)
(* and stored.                                                             *)
(***************************************************************************)
LookupFailed(k) ==
    /\ Failed(k)
    /\ result[k].error.code = UNDEF
    /\ result[k].error.message
        \in {"Could not find instance information for instance i-123",
             "Could not find instance information for instance i-999"}

C18_LookupFailureAbortsCreation ==
    /\ [](\A k \in Slots :
            /\ LookupFailed(k) =>
                /\ calls[k][Len(calls[k])] = DescribeRequest(instanceId(k))
                /\ "putMetricAlarm" \notin Ops(k)
                /\ instanceInfo[k] = NoInfo
            /\ \A n \in DOMAIN calls[k] :
                calls[k][n].op = "putMetricAlarm" =>
                    /\ instanceInfo[k] \in InstanceInfos
                    /\ n > 1
                    /\ IF calls[k][n].alarm.MetricName = "CPUUtilization"
                       THEN calls[k][n - 1] = DescribeRequest(instanceId(k))
                       ELSE /\ calls[k][n - 1] =
                                PutAlarmRequest(CpuAlarm(instanceId(k), env))
                            /\ calls[k][n].alarm.Dimensions[3].Value
                                = instanceInfo[k].imageId
            /\ pc[k] = "putMemory" =>
                /\ ExpectedCpuName(instanceId(k)) \in DOMAIN alarms
                /\ alarms[ExpectedCpuName(instanceId(k))]
                    = CpuAlarm(instanceId(k), env))
    /\ [][\A k \in Slots : pc[k] = "describe" => alarms' = alarms]_vars

C18_Witness ==
    \E k \in Slots :
        /\ Failed(k)
        /\ event[k] = [detail |-> "object", id |-> "i-123", state |-> "running"]
        /\ result[k].error.message
            = "Could not find instance information for instance i-123"
        /\ Len(calls[k]) = 6
        /\ calls[k][6].op = "describeInstances"
        /\ DOMAIN alarms = {"CPU-High-i-123", "Memory-High-i-123"}

(***************************************************************************)
(* C19.  Two invocations for different instances, their steps interleaved  *)
(* in any order, do not interfere.  Every request of the invocation for i  *)
(* names i and nothing of another instance: commands and polls are sent to *)
(* i, the parameter is /cloudwatch-agent/config/i, alarms put and deleted  *)
(* are CPU-High-i and Memory-High-i.  The alarms and the parameter of an   *)
(* instance change in no step but those of its own invocation.  And an     *)
(* invocation that succeeds leaves its instance as it would alone: both    *)
(* alarms as it put them after a running event, no alarm after a           *)
(* terminated event.                                                       *)
(***************************************************************************)
InstanceOf(k) == IF k = 1 THEN "i-123" ELSE "i-999"

ExpectedParameterName(i) ==
    IF i = "i-123"
    THEN "/cloudwatch-agent/config/i-123"
    ELSE "/cloudwatch-agent/config/i-999"

Restrict(store, names) == [n \in DOMAIN store \cap names |-> store[n]]

AlarmNamesOf(i) == {ExpectedCpuName(i), ExpectedMemoryName(i)}

TargetsOnly(r, i) ==
    CASE r.op = "sendCommand" ->
            /\ r.InstanceIds = <<i>>
            /\ r.action = "configure" =>
                r.optionalConfigurationLocation = ExpectedParameterName(i)
      [] r.op = "getCommandInvocation" -> r.InstanceId = i
      [] r.op = "putParameter" -> r.Name = ExpectedParameterName(i)
      [] r.op = "describeInstances" -> r.InstanceIds = <<i>>
      [] r.op = "putMetricAlarm" ->
            /\ r.alarm.AlarmName \in AlarmNamesOf(i)
            /\ \A d \in DOMAIN r.alarm.Dimensions :
                r.alarm.Dimensions[d].Name = "InstanceId" =>
                    r.alarm.Dimensions[d].Value = i
      [] r.op = "deleteAlarms" -> Range(r.AlarmNames) \subseteq AlarmNamesOf(i)
      [] OTHER -> FALSE

C19_DifferentInstancesDoNotInterfere ==
    /\ [](\A k \in ConcurrentSlots :
            /\ \A n \in DOMAIN calls[k] : TargetsOnly(calls[k][n], InstanceOf(k))
            /\ DOMAIN params \subseteq
                {ExpectedParameterName(i) : i \in InstanceIds}
            /\ (Succeeded(k) /\ state(k) = "running") =>
                /\ Restrict(alarms, AlarmNamesOf(InstanceOf(k))) =
                    [n \in AlarmNamesOf(InstanceOf(k)) |->
                        IF n = ExpectedCpuName(InstanceOf(k))
                        THEN CpuAlarm(InstanceOf(k), env)
                        ELSE MemoryAlarm(InstanceOf(k), env, instanceInfo[k])]
                /\ ExpectedParameterName(InstanceOf(k)) \in DOMAIN params
            /\ (Succeeded(k) /\ state(k) = "terminated") =>
                DOMAIN alarms \cap AlarmNamesOf(InstanceOf(k)) = {})
    /\ [][\A k \in ConcurrentSlots :
            pc'[k] = pc[k] =>
                /\ Restrict(alarms', AlarmNamesOf(InstanceOf(k)))
                    = Restrict(alarms, AlarmNamesOf(InstanceOf(k)))
                /\ Restrict(params', {ExpectedParameterName(InstanceOf(k))})
                    = Restrict(params, {ExpectedParameterName(InstanceOf(k))})
       ]_vars

C19_Witness ==
    /\ pc[1] = "putMemory"
    /\ event[1] = RunningEvent("i-123")
    /\ pc[2] = "putMemory"
    /\ event[2] = RunningEvent("i-999")
    /\ DOMAIN alarms = {"CPU-High-i-123", "CPU-High-i-999"}
    /\ DOMAIN params = {"/cloudwatch-agent/config/i-123",
                        "/cloudwatch-agent/config/i-999"}

(***************************************************************************)
(* C20.  The time the waiter sleeps for one command, the initial delay and *)
(* a poll interval for each attempt, fits within the function's execution  *)
(* timeout of 5 minutes, so that a command that never reaches a terminal   *)
(* status ends in the waiter's own time-out error after the 300 seconds    *)
(* the code states, and not in the runtime stopping the invocation.        *)
(***************************************************************************)
C20_WaiterBudgetFitsTimeout ==
    \A k \in Slots :
        /\ waited[k] <= LambdaTimeoutMs
        /\ (Failed(k) /\ result[k].error.message
                            = "Command timed out after 300 seconds") =>
            waited[k] <= 300 * 1000

=============================================================================
